---- MODULE Spec2Model ----
(***************************************************************************)
(* Model of Python_for_Data_Analysis.py: the order-dataset pipeline        *)
(* (read_excel, single-column split, type coercion, per-column imputation, *)
(* to_excel, total_sales, top-10 rankings).                                *)
(*                                                                         *)
(* Strings are sequences of ASCII codes, so that str.split, the numeric    *)
(* and date parses and the lexicographic order of pandas' mode()/groupby   *)
(* are computed, not assumed.  Numbers are kept exactly, in units of       *)
(* 1/Scale (quarters): the median of an even number of integers is a half, *)
(* and the product of two halves is a quarter.                             *)
(***************************************************************************)
EXTENDS Integers, Sequences, FiniteSets, TLC

VARIABLES sheet, build, run, pc, error, data, before, missing_values,
          column, missing_values_after, corrected_file, total_sales,
          average_sales, top_products_quantity, top_products_revenue,
          last_run

vars == <<sheet, build, run, pc, error, data, before, missing_values,
          column, missing_values_after, corrected_file, total_sales,
          average_sales, top_products_quantity, top_products_revenue,
          last_run>>

(* ---------------------------- bounds ----------------------------------- *)
MaxRows == 3      \* rows of a single-column sheet
MaxWide == 12     \* rows of a multi-column sheet with one product per row
MaxRuns == 2      \* executions of the script over the same input

(* ---------------------------- cells ------------------------------------ *)
Scale == 4

NA == [k |-> "na", s |-> <<>>, n |-> 0]
Str(s) == [k |-> "str", s |-> s, n |-> 0]
Num(n) == [k |-> "num", s |-> <<>>, n |-> n]
Dt(n) == [k |-> "dt", s |-> <<>>, n |-> n]
IntCell(v) == Num(Scale * v)

IsNull(c) == c.k = "na"

(* ---------------------------- strings ---------------------------------- *)
SEP == 59

IsDigit(ch) == ch \in 48..57

Minus == 45

StrLess(a, b) ==
    \/ /\ Len(a) < Len(b)
       /\ \A i \in 1..Len(a) : a[i] = b[i]
    \/ \E i \in 1..Len(a) :
          /\ i <= Len(b)
          /\ a[i] < b[i]
          /\ \A j \in 1..(i - 1) : a[j] = b[j]

RECURSIVE StrSplit(_)
StrSplit(s) ==
    IF \A i \in 1..Len(s) : s[i] # SEP THEN <<s>>
    ELSE LET i == CHOOSE x \in 1..Len(s) :
                     s[x] = SEP /\ \A y \in 1..(x - 1) : s[y] # SEP
         IN <<SubSeq(s, 1, i - 1)>> \o StrSplit(SubSeq(s, i + 1, Len(s)))

RECURSIVE Join(_)
Join(parts) ==
    IF Len(parts) = 0 THEN <<>>
    ELSE IF Len(parts) = 1 THEN parts[1]
    ELSE parts[1] \o <<SEP>> \o Join(Tail(parts))

DigitsValue(s) ==
    LET F[i \in 0..Len(s)] ==
          IF i = 0 THEN 0 ELSE 10 * F[i - 1] + (s[i] - 48)
    IN F[Len(s)]

AllDigits(s) == Len(s) > 0 /\ \A i \in 1..Len(s) : IsDigit(s[i])

\* pd.to_numeric(errors='coerce') on one value of an object column
ParseNumeric(c) ==
    IF c.k # "str" THEN c
    ELSE IF AllDigits(c.s) THEN IntCell(DigitsValue(c.s))
    ELSE IF Len(c.s) > 1 /\ c.s[1] = Minus /\ AllDigits(Tail(c.s))
         THEN IntCell(0 - DigitsValue(Tail(c.s)))
    ELSE NA

\* pd.to_datetime(errors='coerce') on one value: a four-digit year string
\* is the first instant of that year; the other strings of the model's
\* alphabet ("x", "") do not parse
ParseDatetime(c) ==
    IF c.k # "str" THEN c
    ELSE IF Len(c.s) = 4 /\ AllDigits(c.s) THEN Dt(Scale * DigitsValue(c.s))
    ELSE NA

(* ---------------------------- frames ----------------------------------- *)
Schema == << "order_id", "quantity", "product_id", "price", "seller_id",
             "freight_value", "customer_id", "order_status", "purchase_date",
             "payment_type", "product_category_name", "product_weight_gram" >>

NumericColumns == {"quantity", "price", "freight_value", "product_weight_gram"}

NoFrame == [names |-> <<>>, dtypes |-> <<>>, cols |-> <<>>, nrows |-> 0]

NCols(df) == Len(df.names)

ColIndex(df, name) == CHOOSE i \in 1..NCols(df) : df.names[i] = name

Col(df, name) == df.cols[ColIndex(df, name)]

HasCol(df, name) == \E i \in 1..NCols(df) : df.names[i] = name

NullCount(col) == Cardinality({i \in 1..Len(col) : IsNull(col[i])})

IsNullSum(df) == [i \in 1..NCols(df) |-> NullCount(df.cols[i])]

(* ---------------------------- input sheets ----------------------------- *)
\* the twelve fields of one record, in schema order
Fields(q, pid, p, st, d, w) ==
    << <<111>>, q, pid, p, <<115>>, <<53>>, <<99>>, st, d, <<118>>, <<102>>, w >>

\* cells a single-column sheet can hold: ';'-joined records with 12, 8 and
\* 13 parts, unparseable numbers and dates, a negative quantity, and an
\* empty (non-string) cell
RawCells ==
    << Str(Join(Fields(<<49>>, <<97>>, <<51>>, <<115>>, <<50, 48, 50, 49>>, <<55>>))),
       Str(Join(Fields(<<50>>, <<98>>, <<51>>, <<116>>, <<50, 48, 50, 51>>, <<57>>))),
       Str(Join(Fields(<<120>>, <<97>>, <<120>>, <<116>>, <<120>>, <<>>))),
       Str(Join(SubSeq(Fields(<<51>>, <<98>>, <<50>>, <<115>>, <<50, 48, 50, 49>>, <<55>>), 1, 8))),
       Str(Join(Append(Fields(<<49>>, <<97>>, <<51>>, <<115>>, <<50, 48, 50, 49>>, <<55>>), <<122>>))),
       NA,
       Str(Join(Fields(<<Minus, 49>>, <<98>>, <<50>>, <<115>>, <<50, 48, 50, 53>>, <<56>>))) >>

RECURSIVE SeqsOver(_, _)
SeqsOver(S, n) ==
    IF n = 0 THEN {<<>>}
    ELSE LET shorter == SeqsOver(S, n - 1)
         IN shorter \cup {Append(r, x) : r \in {t \in shorter : Len(t) = n - 1}, x \in S}

\* read_excel of a one-column sheet: object dtype when a cell is a string
\* or there is no row, float64 when every cell is empty
SingleSheet(raw) ==
    [names |-> <<"raw">>,
     dtypes |-> << IF Len(raw) = 0 \/ \E i \in 1..Len(raw) : raw[i].k = "str"
                   THEN "object" ELSE "float64" >>,
     cols |-> <<raw>>,
     nrows |-> Len(raw)]

SingleSheets ==
    {SingleSheet(raw) : raw \in SeqsOver({RawCells[t] : t \in 1..Len(RawCells)}, MaxRows)}

\* read_excel of a sheet that already has the twelve headers and no row
EmptySheet ==
    [names |-> Schema, dtypes |-> [i \in 1..12 |-> "object"],
     cols |-> [i \in 1..12 |-> <<>>], nrows |-> 0]

\* read_excel of a twelve-column sheet of n rows with one product per row,
\* but row k repeats the product of row 1 and row j orders two units and has
\* no weight; every second purchase_date is empty (as in the recorded run)
WideSheet(n, j, k) ==
    LET col(name) ==
          [i \in 1..n |->
             CASE name = "quantity" -> IntCell(IF i = j THEN 2 ELSE 1)
               [] name = "product_id" -> Str(<<96 + (IF i = k THEN 1 ELSE i)>>)
               [] name = "price" -> IntCell(IF i % 3 = 0 THEN 2 ELSE 1)
               [] name = "freight_value" -> IntCell(5)
               [] name = "purchase_date" ->
                     IF i % 2 = 0 THEN NA ELSE Dt(Scale * (2020 + i))
               [] name = "product_weight_gram" -> IF i = j THEN NA ELSE IntCell(7)
               [] OTHER -> Str(<<111>>)]
        dt(name) ==
             CASE name \in {"quantity", "price", "freight_value"} -> "int64"
               [] name = "purchase_date" -> "datetime64"
               [] name = "product_weight_gram" -> "float64"
               [] OTHER -> "object"
    IN [names |-> Schema,
        dtypes |-> [c \in 1..12 |-> dt(Schema[c])],
        cols |-> [c \in 1..12 |-> col(Schema[c])],
        nrows |-> n]

WideSheets == {WideSheet(n, j, k) : n \in (MaxWide - 1)..MaxWide, j \in 1..MaxWide, k \in 1..MaxWide}

Sheets == SingleSheets \cup {EmptySheet} \cup WideSheets

\* numpy's default sort kind is not stable: the order it leaves equal sums
\* in is fixed by the build, not by the script
Builds == {"ties_ascending", "ties_descending"}

(* ---------------------------- Loader ----------------------------------- *)
MaxOf(S) == IF S = {} THEN 0 ELSE CHOOSE m \in S : \A x \in S : x <= m

\* data.iloc[:, 0].str.split(';', expand=True)
StrSplitExpand(col) ==
    LET parts == [i \in 1..Len(col) |-> IF col[i].k = "str" THEN StrSplit(col[i].s) ELSE <<>>]
        width == MaxOf({Len(parts[i]) : i \in 1..Len(col)})
    IN [names |-> [j \in 1..width |-> "unnamed"],
        dtypes |-> [j \in 1..width |-> "object"],
        cols |-> [j \in 1..width |->
                    [i \in 1..Len(col) |->
                       IF j <= Len(parts[i]) THEN Str(parts[i][j]) ELSE NA]],
        nrows |-> Len(col)]

\* the outcome of lines 10-16: the named frame, or the exception raised
SplitError(df) ==
    IF df.dtypes[1] # "object" THEN "AttributeError"
    ELSE IF NCols(StrSplitExpand(df.cols[1])) # Len(Schema) THEN "ValueError"
    ELSE "none"

SplitColumns(df) == [StrSplitExpand(df.cols[1]) EXCEPT !.names = Schema]

(* ---------------------------- Cleaner ---------------------------------- *)
\* a to_numeric that infers the dtype again from the values of a column
\* that is numeric already (downcasting float64 to int64)
ToNumericDowncast(col, dtype) ==
    LET parsed == [i \in 1..Len(col) |-> ParseNumeric(col[i])]
    IN [col |-> parsed,
        dtype |-> IF NullCount(parsed) > 0 THEN "float64" ELSE "int64"]

\* pd.to_numeric(errors='coerce') on one column
ToNumeric(col, dtype) ==
    IF dtype # "object" THEN [col |-> col, dtype |-> dtype]
    ELSE LET parsed == [i \in 1..Len(col) |-> ParseNumeric(col[i])]
         IN [col |-> parsed,
             dtype |-> IF NullCount(parsed) > 0 THEN "float64" ELSE "int64"]

\* lines 19-21; DataFrame.apply on a frame without rows returns a copy
CoerceNumeric(df) ==
    IF df.nrows = 0 THEN df
    ELSE [df EXCEPT
            !.cols = [c \in 1..NCols(df) |->
                        IF df.names[c] \in NumericColumns
                        THEN ToNumeric(df.cols[c], df.dtypes[c]).col ELSE df.cols[c]],
            !.dtypes = [c \in 1..NCols(df) |->
                        IF df.names[c] \in NumericColumns
                        THEN ToNumeric(df.cols[c], df.dtypes[c]).dtype ELSE df.dtypes[c]]]

\* line 24
CoerceDate(df) ==
    LET c == ColIndex(df, "purchase_date")
    IN [df EXCEPT !.cols[c] = [i \in 1..df.nrows |-> ParseDatetime(df.cols[c][i])],
                  !.dtypes[c] = "datetime64"]

NonNull(col) == {i \in 1..Len(col) : ~IsNull(col[i])}

Count(col, s) == Cardinality({i \in NonNull(col) : col[i].s = s})

RECURSIVE SortStrings(_)
SortStrings(S) ==
    IF S = {} THEN <<>>
    ELSE LET m == CHOOSE x \in S : \A y \in S : y = x \/ StrLess(x, y)
         IN <<m>> \o SortStrings(S \ {m})

\* mode()[0] taken from the unsorted end: the greatest of the tied values
ModeLastTied(col) ==
    LET vals == {col[i].s : i \in NonNull(col)}
        best == {s \in vals : \A t \in vals : Count(col, t) <= Count(col, s)}
        asc == SortStrings(best)
    IN [g \in 1..Len(asc) |-> asc[Len(asc) + 1 - g]]

\* Series.mode(): the most frequent non-missing values, sorted
Mode(col) ==
    LET vals == {col[i].s : i \in NonNull(col)}
        best == {s \in vals : \A t \in vals : Count(col, t) <= Count(col, s)}
    IN SortStrings(best)

\* a median that never averages: the lower middle value
MedianLowerMiddle(col) ==
    LET vals == SelectSeq(col, LAMBDA c : ~IsNull(c))
        n == Len(vals)
        sorted == SortSeq([a \in 1..n |-> vals[a].n], LAMBDA x, y : x < y)
    IN IF n = 0 THEN NA ELSE [vals[1] EXCEPT !.n = sorted[(n + 1) \div 2]]

\* a median that answers 0 when there is no value
MedianZeroWhenEmpty(col) ==
    LET vals == SelectSeq(col, LAMBDA c : ~IsNull(c))
        n == Len(vals)
        sorted == SortSeq([a \in 1..n |-> vals[a].n], LAMBDA x, y : x < y)
    IN IF n = 0 THEN Num(0)
       ELSE [vals[1] EXCEPT
               !.n = IF n % 2 = 1 THEN sorted[(n + 1) \div 2]
                     ELSE (sorted[n \div 2] + sorted[n \div 2 + 1]) \div 2]

\* Series.median(): missing values skipped; NaN (NaT) when nothing is left
Median(col) ==
    LET vals == SelectSeq(col, LAMBDA c : ~IsNull(c))
        n == Len(vals)
        sorted == SortSeq([a \in 1..n |-> vals[a].n], LAMBDA x, y : x < y)
    IN IF n = 0 THEN NA
       ELSE [vals[1] EXCEPT
               !.n = IF n % 2 = 1 THEN sorted[(n + 1) \div 2]
                     ELSE (sorted[n \div 2] + sorted[n \div 2 + 1]) \div 2]

FillNa(col, value) == [i \in 1..Len(col) |-> IF IsNull(col[i]) THEN value ELSE col[i]]

\* mode()[0] on a column without a value raises
ModeUndefined(df, c) == df.dtypes[c] = "object" /\ Len(Mode(df.cols[c])) = 0

\* one iteration of the loop of lines 36-44
FillColumn(df, c) ==
    IF df.dtypes[c] = "object"
    THEN [df EXCEPT !.cols[c] = FillNa(df.cols[c], Str(Mode(df.cols[c])[1]))]
    ELSE [df EXCEPT !.cols[c] = FillNa(df.cols[c], Median(df.cols[c]))]

\* data.to_excel(corrected_file_path, index=False)
ToExcel(df) == [exists |-> TRUE, header |-> df.names, cols |-> df.cols]

(* ---------------------------- Summarizer ------------------------------- *)
TopN == 10

Mul(a, b) == IF IsNull(a) \/ IsNull(b) THEN NA ELSE Num((a.n * b.n) \div Scale)

\* data['total_sales'] = data['quantity'] * data['price']
WithTotalSales(df) ==
    LET q == ColIndex(df, "quantity")
        p == ColIndex(df, "price")
    IN [names |-> Append(df.names, "total_sales"),
        dtypes |-> Append(df.dtypes,
                     IF df.dtypes[q] = "int64" /\ df.dtypes[p] = "int64"
                     THEN "int64" ELSE "float64"),
        cols |-> Append(df.cols, [i \in 1..df.nrows |-> Mul(df.cols[q][i], df.cols[p][i])]),
        nrows |-> df.nrows]

RECURSIVE SumOver(_, _)
SumOver(col, S) ==
    IF S = {} THEN 0
    ELSE LET i == CHOOSE x \in S : TRUE IN col[i].n + SumOver(col, S \ {i})

\* Series.sum(): missing values skipped
SeriesSum(col) == SumOver(col, NonNull(col))

\* Series.mean(): the exact quotient sum/count, NaN without a value
SeriesMean(col) ==
    [sum |-> SeriesSum(col), count |-> Cardinality(NonNull(col)),
     nan |-> NonNull(col) = {}]

\* data.groupby(key)[value].sum(): one entry per key, keys ascending
GroupBySum(df, key, value) ==
    LET kc == Col(df, key)
        vc == Col(df, value)
        keys == SortStrings({kc[i].s : i \in NonNull(kc)})
    IN [g \in 1..Len(keys) |->
          [key |-> keys[g],
           val |-> SumOver(vc, {i \in NonNull(vc) : ~IsNull(kc[i]) /\ kc[i].s = keys[g]}),
           pos |-> g]]

\* sort_values without ascending=False
SortValuesAscending(series, b) ==
    SortSeq(series, LAMBDA x, y :
               \/ x.val < y.val
               \/ /\ x.val = y.val
                  /\ IF b = "ties_ascending" THEN x.pos < y.pos ELSE x.pos > y.pos)

\* Series.sort_values(ascending=False)
SortValuesDescending(series, b) ==
    SortSeq(series, LAMBDA x, y :
               \/ x.val > y.val
               \/ /\ x.val = y.val
                  /\ IF b = "ties_ascending" THEN x.pos < y.pos ELSE x.pos > y.pos)

HeadRows(series, n) == SubSeq(series, 1, IF Len(series) < n THEN Len(series) ELSE n)

TopProducts(df, value, b) ==
    LET top == HeadRows(SortValuesDescending(GroupBySum(df, "product_id", value), b), TopN)
    IN [g \in 1..Len(top) |-> [key |-> top[g].key, val |-> top[g].val]]

(* ---------------------------- the script ------------------------------- *)
\* the script with the to_excel call moved below the total_sales line
AfterSaveLast(p) ==
    CASE p = "read" -> "split"
      [] p = "split" -> "numeric"
      [] p = "numeric" -> "date"
      [] p = "date" -> "missing"
      [] p = "missing" -> "fill"
      [] p = "fill" -> "verify"
      [] p = "verify" -> "total"
      [] p = "total" -> "save"
      [] p = "save" -> "sum"
      [] p = "sum" -> "mean"
      [] p = "mean" -> "top_quantity"
      [] p = "top_quantity" -> "top_revenue"
      [] p = "top_revenue" -> "done"

\* the statement executed after statement p completes
After(p) ==
    CASE p = "read" -> "split"
      [] p = "split" -> "numeric"
      [] p = "numeric" -> "date"
      [] p = "date" -> "missing"
      [] p = "missing" -> "fill"
      [] p = "fill" -> "verify"
      [] p = "verify" -> "save"
      [] p = "save" -> "total"
      [] p = "total" -> "sum"
      [] p = "sum" -> "mean"
      [] p = "mean" -> "top_quantity"
      [] p = "top_quantity" -> "top_revenue"
      [] p = "top_revenue" -> "done"

NoFile == [exists |-> FALSE, header |-> <<>>, cols |-> <<>>]

NoMean == [sum |-> 0, count |-> 0, nan |-> TRUE]

NoRun == [pc |-> "none", error |-> "none", data |-> NoFrame,
          top_products_quantity |-> <<>>, top_products_revenue |-> <<>>]

Init ==
    /\ sheet \in Sheets
    /\ build \in Builds
    /\ run = 1
    /\ pc = "read"
    /\ error = "none"
    /\ data = NoFrame
    /\ before = NoFrame
    /\ missing_values = <<>>
    /\ column = 0
    /\ missing_values_after = <<>>
    /\ corrected_file = NoFile
    /\ total_sales = NA
    /\ average_sales = NoMean
    /\ top_products_quantity = <<>>
    /\ top_products_revenue = <<>>
    /\ last_run = NoRun

\* line 7
ReadExcel ==
    /\ pc = "read"
    /\ data' = sheet
    /\ pc' = After(pc)
    /\ UNCHANGED <<sheet, build, run, error, before, missing_values, column,
                   missing_values_after, corrected_file, total_sales,
                   average_sales, top_products_quantity, top_products_revenue,
                   last_run>>

\* line 10, condition false
SkipSplit ==
    /\ pc = "split"
    /\ NCols(data) # 1
    /\ pc' = After(pc)
    /\ UNCHANGED <<sheet, build, run, error, data, before, missing_values,
                   column, missing_values_after, corrected_file, total_sales,
                   average_sales, top_products_quantity, top_products_revenue,
                   last_run>>

\* lines 10-16
Split ==
    /\ pc = "split"
    /\ NCols(data) = 1
    /\ SplitError(data) = "none"
    /\ data' = SplitColumns(data)
    /\ pc' = After(pc)
    /\ UNCHANGED <<sheet, build, run, error, before, missing_values, column,
                   missing_values_after, corrected_file, total_sales,
                   average_sales, top_products_quantity, top_products_revenue,
                   last_run>>

\* lines 10-16, .str or the assignment of the twelve names raises
SplitFail ==
    /\ pc = "split"
    /\ NCols(data) = 1
    /\ SplitError(data) # "none"
    /\ error' = SplitError(data)
    /\ pc' = "failed"
    /\ UNCHANGED <<sheet, build, run, data, before, missing_values, column,
                   missing_values_after, corrected_file, total_sales,
                   average_sales, top_products_quantity, top_products_revenue,
                   last_run>>

\* lines 19-21
ConvertNumeric ==
    /\ pc = "numeric"
    /\ data' = CoerceNumeric(data)
    /\ pc' = After(pc)
    /\ UNCHANGED <<sheet, build, run, error, before, missing_values, column,
                   missing_values_after, corrected_file, total_sales,
                   average_sales, top_products_quantity, top_products_revenue,
                   last_run>>

\* line 24
ConvertDate ==
    /\ pc = "date"
    /\ data' = CoerceDate(data)
    /\ pc' = After(pc)
    /\ UNCHANGED <<sheet, build, run, error, before, missing_values, column,
                   missing_values_after, corrected_file, total_sales,
                   average_sales, top_products_quantity, top_products_revenue,
                   last_run>>

\* lines 32-33; before records the table these counts are taken of
CountMissing ==
    /\ pc = "missing"
    /\ missing_values' = IsNullSum(data)
    /\ before' = data
    /\ column' = 1
    /\ pc' = After(pc)
    /\ UNCHANGED <<sheet, build, run, error, data, missing_values_after,
                   corrected_file, total_sales, average_sales,
                   top_products_quantity, top_products_revenue, last_run>>

\* lines 36-44, one column
Fill ==
    /\ pc = "fill"
    /\ column <= NCols(data)
    /\ ~ModeUndefined(data, column)
    /\ data' = FillColumn(data, column)
    /\ column' = column + 1
    /\ UNCHANGED <<sheet, build, run, pc, error, before, missing_values,
                   missing_values_after, corrected_file, total_sales,
                   average_sales, top_products_quantity, top_products_revenue,
                   last_run>>

\* line 39, mode()[0] of a column without a value
FillFail ==
    /\ pc = "fill"
    /\ column <= NCols(data)
    /\ ModeUndefined(data, column)
    /\ error' = "KeyError"
    /\ pc' = "failed"
    /\ UNCHANGED <<sheet, build, run, data, before, missing_values, column,
                   missing_values_after, corrected_file, total_sales,
                   average_sales, top_products_quantity, top_products_revenue,
                   last_run>>

\* the loop of line 36 is exhausted
FillDone ==
    /\ pc = "fill"
    /\ column > NCols(data)
    /\ pc' = After(pc)
    /\ UNCHANGED <<sheet, build, run, error, data, before, missing_values,
                   column, missing_values_after, corrected_file, total_sales,
                   average_sales, top_products_quantity, top_products_revenue,
                   last_run>>

\* lines 47-48
VerifyMissing ==
    /\ pc = "verify"
    /\ missing_values_after' = IsNullSum(data)
    /\ pc' = After(pc)
    /\ UNCHANGED <<sheet, build, run, error, data, before, missing_values,
                   column, corrected_file, total_sales, average_sales,
                   top_products_quantity, top_products_revenue, last_run>>

\* lines 51-53
Save ==
    /\ pc = "save"
    /\ corrected_file' = ToExcel(data)
    /\ pc' = After(pc)
    /\ UNCHANGED <<sheet, build, run, error, data, before, missing_values,
                   column, missing_values_after, total_sales, average_sales,
                   top_products_quantity, top_products_revenue, last_run>>

\* line 56
TotalSales ==
    /\ pc = "total"
    /\ data' = WithTotalSales(data)
    /\ pc' = After(pc)
    /\ UNCHANGED <<sheet, build, run, error, before, missing_values, column,
                   missing_values_after, corrected_file, total_sales,
                   average_sales, top_products_quantity, top_products_revenue,
                   last_run>>

\* lines 59-60
SumSales ==
    /\ pc = "sum"
    /\ total_sales' = Num(SeriesSum(Col(data, "total_sales")))
    /\ pc' = After(pc)
    /\ UNCHANGED <<sheet, build, run, error, data, before, missing_values,
                   column, missing_values_after, corrected_file, average_sales,
                   top_products_quantity, top_products_revenue, last_run>>

\* lines 63-64
MeanSales ==
    /\ pc = "mean"
    /\ average_sales' = SeriesMean(Col(data, "total_sales"))
    /\ pc' = After(pc)
    /\ UNCHANGED <<sheet, build, run, error, data, before, missing_values,
                   column, missing_values_after, corrected_file, total_sales,
                   top_products_quantity, top_products_revenue, last_run>>

\* lines 67-68
TopQuantity ==
    /\ pc = "top_quantity"
    /\ top_products_quantity' = TopProducts(data, "quantity", build)
    /\ pc' = After(pc)
    /\ UNCHANGED <<sheet, build, run, error, data, before, missing_values,
                   column, missing_values_after, corrected_file, total_sales,
                   average_sales, top_products_revenue, last_run>>

\* lines 71-72
TopRevenue ==
    /\ pc = "top_revenue"
    /\ top_products_revenue' = TopProducts(data, "total_sales", build)
    /\ pc' = After(pc)
    /\ UNCHANGED <<sheet, build, run, error, data, before, missing_values,
                   column, missing_values_after, corrected_file, total_sales,
                   average_sales, top_products_quantity, last_run>>

\* the script is started again on the same sheet, by the same build; only
\* the file it wrote outlives the process
Rerun ==
    /\ pc \in {"done", "failed"}
    /\ run < MaxRuns
    /\ last_run' = [pc |-> pc, error |-> error, data |-> data,
                    top_products_quantity |-> top_products_quantity,
                    top_products_revenue |-> top_products_revenue]
    /\ run' = run + 1
    /\ pc' = "read"
    /\ error' = "none"
    /\ data' = NoFrame
    /\ before' = NoFrame
    /\ missing_values' = <<>>
    /\ column' = 0
    /\ missing_values_after' = <<>>
    /\ total_sales' = NA
    /\ average_sales' = NoMean
    /\ top_products_quantity' = <<>>
    /\ top_products_revenue' = <<>>
    /\ UNCHANGED <<sheet, build, corrected_file>>

Next ==
    \/ ReadExcel
    \/ SkipSplit
    \/ Split
    \/ SplitFail
    \/ ConvertNumeric
    \/ ConvertDate
    \/ CountMissing
    \/ Fill
    \/ FillFail
    \/ FillDone
    \/ VerifyMissing
    \/ Save
    \/ TotalSales
    \/ SumSales
    \/ MeanSales
    \/ TopQuantity
    \/ TopRevenue

Spec == Init /\ [][Next]_vars

\* repeated runs: the sheets with more products than the ranking keeps, the
\* sheet without rows and the single-column sheets of at most one row
SheetsOfRuns ==
    WideSheets \cup {EmptySheet}
        \cup {SingleSheet(raw) : raw \in SeqsOver({RawCells[t] : t \in 1..Len(RawCells)}, 1)}

InitRuns ==
    /\ sheet \in SheetsOfRuns
    /\ build \in Builds
    /\ run = 1
    /\ pc = "read"
    /\ error = "none"
    /\ data = NoFrame
    /\ before = NoFrame
    /\ missing_values = <<>>
    /\ column = 0
    /\ missing_values_after = <<>>
    /\ corrected_file = NoFile
    /\ total_sales = NA
    /\ average_sales = NoMean
    /\ top_products_quantity = <<>>
    /\ top_products_revenue = <<>>
    /\ last_run = NoRun

NextRuns == Next \/ Rerun

SpecRuns == InitRuns /\ [][NextRuns]_vars

(* ---------------------------- properties ------------------------------- *)
\* the imputation loop has run to completion
LoopCompleted ==
    pc \in {"verify", "save", "total", "sum", "mean", "top_quantity",
            "top_revenue", "done"}

\* the loop has passed column c
Imputed(c) == c < column

\* the number of values of a column less than x, and at most x
Below(col, x) == Cardinality({i \in NonNull(col) : col[i].n < x})

AtMost(col, x) == Cardinality({i \in NonNull(col) : col[i].n <= x})

\* x is the r-th smallest of the values of a column
IsRanked(col, x, r) ==
    /\ \E i \in NonNull(col) : col[i].n = x
    /\ Below(col, x) < r
    /\ r <= AtMost(col, x)

ValueCount(col) == Cardinality(NonNull(col))

\* C1: once the imputation loop has run to completion, the count of missing
\* values of every column is 0.
NoMissingAfterCleaning ==
    pc \in {"save", "total", "sum", "mean", "top_quantity", "top_revenue", "done"}
        => \A c \in 1..Len(missing_values_after) : missing_values_after[c] = 0

\* a string row of a single-column sheet has fewer or more than 12 parts
WrongFieldCount ==
    /\ NCols(sheet) = 1
    /\ \E i \in 1..sheet.nrows :
          /\ sheet.cols[1][i].k = "str"
          /\ Len(StrSplit(sheet.cols[1][i].s)) # Len(Schema)

\* C2: a single-column sheet with a row of fewer or more than 12 parts does
\* not abort the run; every record is kept in the 12-column schema and the
\* positions the row lacks are missing.
LoaderSoftFailure ==
    WrongFieldCount =>
        /\ ~(pc = "failed" /\ error = "ValueError")
        /\ pc = "numeric" =>
              /\ data.names = Schema
              /\ data.nrows = sheet.nrows
              /\ \A i \in 1..sheet.nrows : \A j \in 1..Len(Schema) :
                    sheet.cols[1][i].k = "str" /\ j > Len(StrSplit(sheet.cols[1][i].s))
                        => IsNull(data.cols[j][i])

\* C3: in a string column with a value, every missing position receives one
\* and the same value, a most frequent value of the column before
\* imputation and the least of the most frequent ones in sorted order; the
\* other positions keep their value.
ModeImputation ==
    \A c \in 1..NCols(before) :
        (Imputed(c) /\ before.dtypes[c] = "object" /\ NonNull(before.cols[c]) # {}) =>
            \E m \in NonNull(before.cols[c]) :
                LET old == before.cols[c]
                    v == old[m].s
                IN /\ \A i \in NonNull(old) : Count(old, old[i].s) <= Count(old, v)
                   /\ \A i \in NonNull(old) :
                         Count(old, old[i].s) = Count(old, v)
                             => (old[i].s = v \/ StrLess(v, old[i].s))
                   /\ \A i \in 1..Len(old) :
                         data.cols[c][i] = IF IsNull(old[i]) THEN Str(v) ELSE old[i]

\* a string column with a missing position and two values tied for most
\* frequent has been imputed
ModeImputationWitness ==
    \E c \in 1..NCols(before) :
        /\ Imputed(c)
        /\ before.dtypes[c] = "object"
        /\ NullCount(before.cols[c]) > 0
        /\ \E i, j \in NonNull(before.cols[c]) :
              /\ before.cols[c][i].s # before.cols[c][j].s
              /\ \A t \in NonNull(before.cols[c]) :
                    Count(before.cols[c], before.cols[c][t].s)
                        <= Count(before.cols[c], before.cols[c][i].s)
              /\ Count(before.cols[c], before.cols[c][i].s)
                    = Count(before.cols[c], before.cols[c][j].s)

\* C4 (as amended): in a column that is not string-typed and has a value,
\* every missing position receives the median of the values the column had
\* before imputation: the middle value of the sorted values when their
\* number is odd, the mean of the two middle values when it is even; the
\* other positions keep their value.
MedianImputation ==
    \A c \in 1..NCols(before) :
        (Imputed(c) /\ before.dtypes[c] # "object" /\ NonNull(before.cols[c]) # {}) =>
            LET old == before.cols[c]
                n == ValueCount(old)
            IN \E a, b \in NonNull(old) :
                  /\ IsRanked(old, old[a].n, (n + 1) \div 2)
                  /\ IsRanked(old, old[b].n, n \div 2 + 1)
                  /\ \A i \in 1..Len(old) :
                        data.cols[c][i] =
                            IF IsNull(old[i])
                            THEN [old[a] EXCEPT !.n = (old[a].n + old[b].n) \div 2]
                            ELSE old[i]

\* a numeric column with a missing position and an even number of values,
\* the two middle ones different, has been imputed
MedianImputationWitness ==
    \E c \in 1..NCols(before) :
        /\ Imputed(c)
        /\ before.dtypes[c] # "object"
        /\ NullCount(before.cols[c]) > 0
        /\ ValueCount(before.cols[c]) % 2 = 0
        /\ \E a, b \in NonNull(before.cols[c]) :
              /\ IsRanked(before.cols[c], before.cols[c][a].n, ValueCount(before.cols[c]) \div 2)
              /\ IsRanked(before.cols[c], before.cols[c][b].n, ValueCount(before.cols[c]) \div 2 + 1)
              /\ before.cols[c][a].n # before.cols[c][b].n

\* C4 (as stated): the value that replaces the missing positions is the
\* middle value of the sorted non-missing sequence, that is, one of the
\* values at a middle position.
MedianIsMiddleValue ==
    \A c \in 1..NCols(before) :
        (Imputed(c) /\ before.dtypes[c] # "object" /\ NonNull(before.cols[c]) # {}) =>
            LET old == before.cols[c]
                n == ValueCount(old)
            IN \E a \in NonNull(old) :
                  /\ \/ IsRanked(old, old[a].n, (n + 1) \div 2)
                     \/ IsRanked(old, old[a].n, n \div 2 + 1)
                  /\ \A i \in 1..Len(old) :
                        data.cols[c][i] = IF IsNull(old[i]) THEN old[a] ELSE old[i]

\* the per-column imputation of lines 36-44 from column c on; NoFrame when
\* mode()[0] raises
RECURSIVE FillFrom(_, _)
FillFrom(df, c) ==
    IF c > NCols(df) THEN df
    ELSE IF ModeUndefined(df, c) THEN NoFrame
    ELSE FillFrom(FillColumn(df, c), c + 1)

\* the Cleaner: type coercion followed by per-column imputation
Clean(df) == FillFrom(CoerceDate(CoerceNumeric(df)), 1)

\* C5: the Cleaner applied to its own output returns that output: the same
\* columns, dtypes and values, no missing value more or less.
CleaningIdempotent ==
    pc \in {"verify", "save", "total"} => Clean(data) = data

\* the Cleaner has turned an unparseable number into a missing value and
\* filled missing positions, and its output is at hand
CleaningIdempotentWitness ==
    /\ pc = "save"
    /\ NCols(sheet) = 1
    /\ \E c \in 1..NCols(before) :
          /\ before.dtypes[c] = "float64"
          /\ NullCount(before.cols[c]) > 0
          /\ NullCount(data.cols[c]) = 0
    /\ \E c \in 1..NCols(before) :
          /\ before.dtypes[c] = "object"
          /\ NullCount(before.cols[c]) > 0

\* the sum of quantity * price over the rows S, in units of 1/Scale
RECURSIVE ProductSum(_, _, _)
ProductSum(q, p, S) ==
    IF S = {} THEN 0
    ELSE LET i == CHOOSE x \in S : TRUE
         IN (q[i].n * p[i].n) \div Scale + ProductSum(q, p, S \ {i})

\* C6: total_sales[i] is quantity[i] * price[i] exactly and never missing,
\* and total_sales_sum is the sum of quantity[i] * price[i] over all rows.
DerivedTotalSales ==
    pc \in {"mean", "top_quantity", "top_revenue", "done"} =>
        LET q == Col(data, "quantity")
            p == Col(data, "price")
            t == Col(data, "total_sales")
        IN /\ \A i \in 1..data.nrows :
                 /\ ~IsNull(t[i])
                 /\ ~IsNull(q[i]) /\ ~IsNull(p[i])
                 /\ t[i].n * Scale = q[i].n * p[i].n
           /\ total_sales = Num(ProductSum(q, p, 1..data.nrows))

\* the product ids of a frame
Products(df) == {Col(df, "product_id")[i].s : i \in NonNull(Col(df, "product_id"))}

\* the sum of the values present in the rows of product id
RECURSIVE RowSum(_, _, _, _)
RowSum(df, value, id, i) ==
    IF i = 0 THEN 0
    ELSE RowSum(df, value, id, i - 1)
         + (IF Col(df, "product_id")[i] = Str(id) /\ ~IsNull(Col(df, value)[i])
            THEN Col(df, value)[i].n ELSE 0)

Ranked(top, df, value) ==
    /\ Len(top) = IF Cardinality(Products(df)) < TopN
                  THEN Cardinality(Products(df)) ELSE TopN
    /\ \A g \in 1..Len(top) :
          /\ top[g].key \in Products(df)
          /\ top[g].val = RowSum(df, value, top[g].key, df.nrows)
    /\ \A g, h \in 1..Len(top) : g < h => top[g].key # top[h].key /\ top[g].val >= top[h].val
    /\ \A id \in Products(df) :
          (\A g \in 1..Len(top) : top[g].key # id) =>
              \A g \in 1..Len(top) : RowSum(df, value, id, df.nrows) <= top[g].val

CleanedFileContent ==
    /\ corrected_file.exists =>
          /\ corrected_file.header = Schema
          /\ \A c \in 1..Len(corrected_file.header) :
                corrected_file.header[c] # "total_sales"
    /\ (run = 1 /\ pc \in {"read", "split", "numeric", "date", "missing", "fill",
                           "verify", "save", "failed"})
          => ~corrected_file.exists
    /\ pc = "total" =>
          /\ column > NCols(data)
          /\ corrected_file = [exists |-> TRUE, header |-> data.names, cols |-> data.cols]
    /\ pc \in {"sum", "mean", "top_quantity", "top_revenue", "done"} =>
          /\ corrected_file.exists
          /\ HasCol(data, "total_sales")
          /\ \A c \in 1..Len(Schema) : corrected_file.cols[c] = data.cols[c]

\* the file has been written and total_sales derived after it
CleanedFileContentWitness ==
    /\ pc = "done"
    /\ corrected_file.exists
    /\ HasCol(data, "total_sales")
    /\ \E c \in 1..NCols(before) : NullCount(before.cols[c]) > 0

QuantityDomain ==
    LoopCompleted =>
        \A i \in 1..data.nrows :
            LET q == Col(data, "quantity")[i]
            IN q.k = "num" /\ q.n >= 0 /\ q.n % Scale = 0

====
